---- MODULE Spec2Model ----
(***************************************************************************)
(* Model of the gateway orchestrator's reconciliation engine:              *)
(* GatewayHostnameRequest reconcile (normal path and finalizer teardown),  *)
(* the DomainClaim registry, the gateway pool allocator and the            *)
(* LoadBalancerConfiguration synthesizer, against ACM, Route53, the        *)
(* cluster store and the AWS load balancer controller.                     *)
(*                                                                         *)
(* One reconcile pass of a request is a sequence of steps (pc); a step is  *)
(* atomic and ends at an API call boundary at which another request's      *)
(* reconcile can interleave.  Reconciles of one request are serialized by  *)
(* the work queue; reconciles of different requests interleave.  User      *)
(* deletions arrive between two passes of the request.                     *)
(***************************************************************************)
EXTENDS Integers, Sequences, FiniteSets, TLC

\* ------------------------------------------------------------------ bounds
MaxGw == 2        \* gateway indices gw-01 .. gw-MaxGw
MaxCertIds == 2   \* certificate identifiers the authority can hand out
MaxFaults == 1    \* adapter failures injected in one behaviour
MaxPlaced == 22   \* requests placed in the capacity specification
MaxPasses == 4    \* passes counted after an external change
MaxArns == 4      \* certificate identifiers in the synthesizer specification

\* ------------------------------------------------------- program constants
MaxCertificatesPerGateway == 20
MaxRulesPerGateway == 100

Reqs == {"r1", "r2"}
GwIdx == 1 .. MaxGw
CertIds == 1 .. MaxCertIds
PoolClass == "aws-alb"
DefaultVisibility == "internet-facing"

\* the namespaces of the cluster
Namespaces == {"a", "b"}

ConditionTypeClaimed == "Claimed"
ConditionTypeCertificateRequested == "CertificateRequested"
ConditionTypeDnsValidated == "DnsValidated"
ConditionTypeCertificateIssued == "CertificateIssued"
ConditionTypeListenerAttached == "ListenerAttached"
ConditionTypeDnsAliasReady == "DnsAliasReady"
ConditionTypeReady == "Ready"
ConditionTypeDeleting == "Deleting"

CondTypes == {ConditionTypeClaimed, ConditionTypeCertificateRequested,
              ConditionTypeDnsValidated, ConditionTypeCertificateIssued,
              ConditionTypeListenerAttached, ConditionTypeDnsAliasReady,
              ConditionTypeReady, ConditionTypeDeleting}

\* the pipeline's conditions in the order of its steps
CondOrder == <<ConditionTypeClaimed, ConditionTypeCertificateRequested,
               ConditionTypeDnsValidated, ConditionTypeCertificateIssued,
               ConditionTypeListenerAttached, ConditionTypeDnsAliasReady,
               ConditionTypeReady>>

VARIABLES
    ghr,      \* cluster store: the GatewayHostnameRequest objects
    claims,   \* cluster store: the DomainClaim objects
    gws,      \* cluster store: the pool's Gateway objects, by index
    lbcs,     \* cluster store: the LoadBalancerConfiguration objects, by index
    nsLabel,  \* cluster store: gateway-access label of each namespace
    certs,    \* ACM: the certificates, by identifier
    dns,      \* Route53: the record sets
    pc,       \* position of each request's reconcile pass
    mem,      \* the pass's in-memory copy of the request's status
    tmp,      \* the pass's local variables
    requeue,  \* result of the request's last pass
    faults,   \* adapter failures injected so far
    placed,   \* capacity specification: requests assigned per gateway
    drift     \* observer: passes of each request since an external change

vars == <<ghr, claims, gws, lbcs, nsLabel, certs, dns, pc, mem, tmp, requeue,
          faults, placed, drift>>

\* ------------------------------------------------------------ status record
NoConds == [t \in CondTypes |-> "None"]
NoReasons == [t \in CondTypes |-> ""]

EmptyStatus == [certArn |-> 0, gw |-> 0, lb |-> 0, conds |-> NoConds,
                reasons |-> NoReasons, hash |-> <<>>]

setCondition(st, type, val, reason) ==
    [st EXCEPT !.conds[type] = val, !.reasons[type] = reason]

RemoveStatusCondition(st, type) ==
    [st EXCEPT !.conds[type] = "None", !.reasons[type] = ""]

IsStatusConditionTrue(st, type) == st.conds[type] = "True"

RECURSIVE RemoveAll(_, _)
RemoveAll(st, types) ==
    IF types = <<>> THEN st
    ELSE RemoveAll(RemoveStatusCondition(st, Head(types)), Tail(types))

\* ------------------------------------------------------------ pure helpers
ToLower(s) == IF s = "Z1" THEN "z1" ELSE s

\* strings.ReplaceAll(hostname, "*", "wildcard") on a hostname given as its labels
Sanitize(hostname) ==
    [i \in 1 .. Len(hostname) |->
        IF hostname[i] = "*" THEN "wildcard" ELSE hostname[i]]

generateClaimName(zoneId, hostname) ==
    <<ToLower(zoneId)>> \o [i \in 1 .. Len(hostname) |-> ToLower(Sanitize(hostname)[i])]

computeSpecHash(spec) ==
    <<spec.hostname, spec.zoneId, spec.visibility, spec.gatewayClass>>

EffVisibility(spec) ==
    IF spec.visibility = "" THEN DefaultVisibility ELSE spec.visibility

validateRequest(spec) == spec.zoneId # "" /\ spec.hostname # <<>>


\* ------------------------------------------------------------ store objects
ReqOrder == <<"r1", "r2">>   \* order of a List of the requests (namespace/name)

Host1 == <<"api", "example", "com">>
Host2 == <<"m", "example", "com">>

MkSpec(hostname) ==
    [hostname |-> hostname, zoneId |-> "Z1", visibility |-> "",
     gatewayClass |-> "", wafArn |-> "", selector |-> ""]

\* the specs a request can be submitted with
InitSpecs(r) == IF r = "r1" THEN {MkSpec(Host1)} ELSE {MkSpec(Host1), MkSpec(Host2)}

NewReq(spec) ==
    [exists |-> TRUE, deleting |-> FALSE, finalizer |-> FALSE, spec |-> spec,
     status |-> EmptyStatus]

\* a request that was never submitted, or whose finalizer has been removed
GoneReq(spec) ==
    [exists |-> FALSE, deleting |-> FALSE, finalizer |-> FALSE, spec |-> spec,
     status |-> EmptyStatus]

NoGw == [exists |-> FALSE, class |-> "", visibility |-> "", waf |-> "",
         certCount |-> 0, ruleCount |-> 0, label |-> "", addr |-> FALSE]

NoLbc == [exists |-> FALSE, scheme |-> "", waf |-> "",
          defaultCertificate |-> 0, certificates |-> <<>>]

NoCert == [status |-> "ABSENT", host |-> <<>>, owner |-> "", inUse |-> FALSE]

NoTmp == [sel |-> 0, arns |-> <<>>, vis |-> "", waf |-> ""]

\* no external change to the request's resources is being followed
NoDrift == [kind |-> "none", passes |-> 0, late |-> FALSE]

\* metadata.namespace of each request: one namespace each, or, in a cluster
\* that has only namespace "a", both in it
Namespace(r) == IF r = "r1" \/ "b" \notin DOMAIN nsLabel THEN "a" ELSE "b"

\* metadata.name: the same in both namespaces, distinct within one namespace
ReqName(r) == IF Namespace("r1") = Namespace("r2") THEN r ELSE "req"

OwnerRef(r) == [namespace |-> Namespace(r), name |-> ReqName(r), uid |-> r]

\* ------------------------------------------------------------ ACM adapter
CertExists(c) == c # 0 /\ certs[c].status \notin {"ABSENT", "DELETED"}

\* GetValidationRecords: empty until the authority has computed them
ValidationRecords(c) ==
    IF certs[c].status = "NEW" THEN {}
    ELSE {[name |-> <<"_acm">> \o certs[c].host, type |-> "CNAME",
           value |-> <<"_val">> \o certs[c].host]}

\* ------------------------------------------------------------ Route53 adapter
\* UPSERT: create or replace on (zone, name, type)
CreateOrUpdateRecord(records, zoneId, rec, by) ==
    {x \in records : ~(x.zone = zoneId /\ x.name = rec.name /\ x.type = rec.type)}
        \cup {[zone |-> zoneId, name |-> rec.name, type |-> rec.type,
               value |-> rec.value, by |-> by]}

\* DELETE: removes the record set that matches the given one
DeleteRecord(records, zoneId, rec) ==
    {x \in records : ~(x.zone = zoneId /\ x.name = rec.name /\ x.type = rec.type
                       /\ x.value = rec.value)}

RECURSIVE DeleteRecords(_, _, _)
DeleteRecords(records, zoneId, recs) ==
    IF recs = {} THEN records
    ELSE LET rec == CHOOSE x \in recs : TRUE
         IN DeleteRecords(DeleteRecord(records, zoneId, rec), zoneId, recs \ {rec})

RECURSIVE UpsertRecords(_, _, _, _)
UpsertRecords(records, zoneId, recs, by) ==
    IF recs = {} THEN records
    ELSE LET rec == CHOOSE x \in recs : TRUE
         IN UpsertRecords(CreateOrUpdateRecord(records, zoneId, rec, by), zoneId,
                          recs \ {rec}, by)

\* the alias record of a hostname pointing at the load balancer of gateway g
AliasRecord(hostname, g) ==
    [name |-> hostname, type |-> "A", value |-> <<"alias", g>>]

\* ------------------------------------------------------------ gateway pool
\* a capacity check that still admits a gateway at its limits
FitsAtLimit(gw, visibility, wafArn, selector) ==
    /\ gw.exists
    /\ gw.class = PoolClass
    /\ gw.visibility = visibility
    /\ gw.waf = wafArn
    /\ (selector = "" \/ gw.label = selector)
    /\ gw.certCount <= MaxCertificatesPerGateway
    /\ gw.ruleCount <= MaxRulesPerGateway

Fits(gw, visibility, wafArn, selector) ==
    /\ gw.exists
    /\ gw.class = PoolClass
    /\ gw.visibility = visibility
    /\ gw.waf = wafArn
    /\ (selector = "" \/ gw.label = selector)
    /\ gw.certCount < MaxCertificatesPerGateway
    /\ gw.ruleCount < MaxRulesPerGateway

\* the loop over gatewayList.Items from item g on, in list (name) order: the
\* first item that passes the filters and has capacity, 0 when none does
RECURSIVE FirstFit(_, _, _, _, _)
FirstFit(pool, g, visibility, wafArn, selector) ==
    IF g > MaxGw THEN 0
    ELSE IF Fits(pool[g], visibility, wafArn, selector) THEN g
    ELSE FirstFit(pool, g + 1, visibility, wafArn, selector)

SelectGateway(pool, visibility, wafArn, selector) ==
    FirstFit(pool, 1, visibility, wafArn, selector)

GetNextGatewayIndex(pool) ==
    LET idx == {g \in GwIdx : pool[g].exists}
    IN IF idx = {} THEN 1 ELSE (CHOOSE g \in idx : \A h \in idx : h <= g) + 1

CreateGateway(visibility, wafArn) ==
    [exists |-> TRUE, class |-> PoolClass, visibility |-> visibility,
     waf |-> wafArn, certCount |-> 0, ruleCount |-> 0, label |-> "",
     addr |-> FALSE]

\* ------------------------------------------------------------ LB configuration
RECURSIVE CollectARNs(_, _, _)
CollectARNs(store, g, order) ==
    IF order = <<>> THEN <<>>
    ELSE LET r == Head(order)
             rest == CollectARNs(store, g, Tail(order))
         IN IF store[r].exists /\ store[r].status.gw = g
               /\ store[r].status.certArn # 0
            THEN <<store[r].status.certArn>> \o rest
            ELSE rest

getGatewayCertificateARNs(g) == CollectARNs(ghr, g, ReqOrder)

\* syncLoadBalancerConfiguration: the listed ARNs plus the caller's new one
WithNewCert(arns, newCertARN) ==
    IF newCertARN # 0 /\ ~(\E i \in 1 .. Len(arns) : arns[i] = newCertARN)
    THEN Append(arns, newCertARN)
    ELSE arns

\* a synthesizer that keeps the order of the list it is given
KeepOrder(arns) == arns

\* sort.Strings; identifiers are numbered in the lexicographic order of their ARNs
SortStrings(arns) == SortSeq(arns, LAMBDA a, b : a < b)

\* the spec ensureLoadBalancerConfiguration writes (create or full replacement)
ensureLoadBalancerConfiguration(certificateARNs, visibility, wafArn) ==
    LET sortedCerts == SortStrings(certificateARNs)
    IN [exists |-> TRUE, scheme |-> visibility, waf |-> wafArn,
        defaultCertificate |-> IF Len(sortedCerts) > 0 THEN sortedCerts[1] ELSE 0,
        certificates |-> IF Len(sortedCerts) > 1 THEN Tail(sortedCerts) ELSE <<>>]

\* the bundle of a LoadBalancerConfiguration: defaultCertificate, then certificates
Bundle(lbc) ==
    IF lbc.defaultCertificate = 0 THEN <<>>
    ELSE <<lbc.defaultCertificate>> \o lbc.certificates

\* ------------------------------------------------------------ initial state
EmptyPool == [g \in GwIdx |-> NoGw]

\* a pool in which gw-01 and gw-01-config exist and serve no request
IdlePool == [EmptyPool EXCEPT ![1] = CreateGateway(DefaultVisibility, "")]

ConfigsOf(pool) ==
    [g \in GwIdx |-> IF pool[g].exists
                     THEN ensureLoadBalancerConfiguration(<<>>, pool[g].visibility,
                                                          pool[g].waf)
                     ELSE NoLbc]

InitRest ==
    /\ claims = {}
    /\ lbcs = ConfigsOf(gws)
    /\ nsLabel = [n \in Namespaces |-> 0]
    /\ certs = [c \in CertIds |-> NoCert]
    /\ dns = {}
    /\ pc = [r \in Reqs |-> "idle"]
    /\ mem = [r \in Reqs |-> EmptyStatus]
    /\ tmp = [r \in Reqs |-> NoTmp]
    /\ requeue = [r \in Reqs |-> "now"]
    /\ faults = 0
    /\ placed = [g \in GwIdx |-> 0]
    /\ drift = [r \in Reqs |-> NoDrift]

\* two requests submitted, for the same pair or for different pairs, to an empty pool
Init ==
    /\ \E s \in InitSpecs("r2") :
          ghr = [r \in Reqs |-> IF r = "r1" THEN NewReq(MkSpec(Host1)) ELSE NewReq(s)]
    /\ gws = EmptyPool
    /\ InitRest

\* a single request submitted to an empty pool or to a pool with an idle gateway
InitSingle ==
    /\ ghr = [r \in Reqs |-> IF r = "r1" THEN NewReq(MkSpec(Host1))
                                         ELSE GoneReq(MkSpec(Host2))]
    /\ gws \in {EmptyPool, IdlePool}
    /\ InitRest

\* ------------------------------------------------------------ pass plumbing
Persist(r, st) == ghr' = [ghr EXCEPT ![r].status = st]

\* the pass returns: rq is "none", "now", "15s", "30s" or "err" (backoff)
Return(r, rq) ==
    /\ pc' = [pc EXCEPT ![r] = "idle"]
    /\ requeue' = [requeue EXCEPT ![r] = rq]
    /\ mem' = [mem EXCEPT ![r] = EmptyStatus]
    /\ tmp' = [tmp EXCEPT ![r] = NoTmp]

Goto(r, p, st) ==
    /\ pc' = [pc EXCEPT ![r] = p]
    /\ mem' = [mem EXCEPT ![r] = st]
    /\ UNCHANGED requeue

CanFail == faults < MaxFaults
Fail == faults' = faults + 1


\* a pipeline that goes from the assignment straight to the final steps
AdvanceWithoutAlias(st) ==
    IF st.certArn = 0 THEN "cert"
    ELSE IF ~IsStatusConditionTrue(st, ConditionTypeDnsValidated) THEN "validate"
    ELSE IF ~IsStatusConditionTrue(st, ConditionTypeCertificateIssued) THEN "issue"
    ELSE IF ~IsStatusConditionTrue(st, ConditionTypeListenerAttached) THEN "assign"
    ELSE "sync"

\* a pipeline that requests a certificate again once the request is Ready
AdvanceRenewing(st) ==
    IF st.certArn = 0 \/ IsStatusConditionTrue(st, ConditionTypeReady) THEN "cert"
    ELSE IF ~IsStatusConditionTrue(st, ConditionTypeDnsValidated) THEN "validate"
    ELSE IF ~IsStatusConditionTrue(st, ConditionTypeCertificateIssued) THEN "issue"
    ELSE IF ~IsStatusConditionTrue(st, ConditionTypeListenerAttached) THEN "assign"
    ELSE IF ~IsStatusConditionTrue(st, ConditionTypeDnsAliasReady) THEN "alias"
    ELSE "sync"

\* the first step of reconcileNormal, after the claim, that is not yet done
Advance(st) ==
    IF st.certArn = 0 THEN "cert"
    ELSE IF ~IsStatusConditionTrue(st, ConditionTypeDnsValidated) THEN "validate"
    ELSE IF ~IsStatusConditionTrue(st, ConditionTypeCertificateIssued) THEN "issue"
    ELSE IF ~IsStatusConditionTrue(st, ConditionTypeListenerAttached) THEN "assign"
    ELSE IF ~IsStatusConditionTrue(st, ConditionTypeDnsAliasReady) THEN "alias"
    ELSE "sync"

\* ------------------------------------------------------------ drift detection
\* a drift detector that leaves ListenerAttached as it is
ClearGatewayKeepAttached(st) ==
    RemoveAll([st EXCEPT !.gw = 0, !.lb = 0],
              <<ConditionTypeDnsAliasReady, ConditionTypeReady>>)

\* a drift detector that keeps the assignment to the missing gateway
ClearGatewayKeepAssignment(st) ==
    RemoveAll(st, <<ConditionTypeListenerAttached, ConditionTypeDnsAliasReady,
                    ConditionTypeReady>>)

\* the assigned gateway is gone: clear the conditions and the assignment
ClearGateway(st) ==
    RemoveAll([st EXCEPT !.gw = 0, !.lb = 0],
              <<ConditionTypeListenerAttached, ConditionTypeDnsAliasReady,
                ConditionTypeReady>>)

\* a drift detector that keeps the identifier of the missing certificate
ClearCertificateKeepArn(st) ==
    RemoveAll(st, <<ConditionTypeCertificateIssued, ConditionTypeDnsValidated,
                    ConditionTypeListenerAttached, ConditionTypeDnsAliasReady,
                    ConditionTypeReady>>)

\* the certificate is gone or in a bad state: clear the conditions and the ARN
ClearCertificate(st) ==
    RemoveAll([st EXCEPT !.certArn = 0],
              <<ConditionTypeCertificateIssued, ConditionTypeDnsValidated,
                ConditionTypeListenerAttached, ConditionTypeDnsAliasReady,
                ConditionTypeReady>>)

\* a drift detector that detects nothing
validateNothing(st) == st

validateAssignedResources(st) ==
    LET gwGone == ClearGateway(st)
        lbcGone == RemoveAll(st,
                      <<ConditionTypeListenerAttached, ConditionTypeDnsAliasReady,
                        ConditionTypeReady>>)
        s1 == IF st.gw # 0 /\ IsStatusConditionTrue(st, ConditionTypeListenerAttached)
              THEN IF ~gws[st.gw].exists THEN gwGone
                   ELSE IF ~lbcs[st.gw].exists THEN lbcGone ELSE st
              ELSE st
        certGone == ClearCertificate(s1)
    IN IF s1.certArn # 0 /\ IsStatusConditionTrue(s1, ConditionTypeCertificateIssued)
          /\ (~CertExists(s1.certArn) \/ certs[s1.certArn].status \in {"FAILED", "REVOKED"})
       THEN certGone
       ELSE s1

\* ACM or the load balancer controller still owes request r a step: validation
\* records to publish, a validated certificate to issue, an address to publish
Pending(r) ==
    \/ \E c \in CertIds :
          /\ certs[c].owner = r
          /\ \/ certs[c].status = "NEW"
             \/ /\ certs[c].status = "PENDING_VALIDATION"
                /\ \E v \in ValidationRecords(c) :
                      \E x \in dns : x.name = v.name /\ x.type = v.type
                                      /\ x.value = v.value
    \/ \E g \in GwIdx : /\ ghr[r].status.gw = g
                         /\ gws[g].exists /\ lbcs[g].exists /\ ~gws[g].addr

\* a pass of r starts: one more pass since the external change that is followed,
\* and a note of whether ACM or the load balancer controller was behind
StartPass(r) ==
    IF drift[r].kind = "none" THEN drift[r]
    ELSE [drift[r] EXCEPT !.passes = IF @ < MaxPasses THEN @ + 1 ELSE @,
                          !.late = @ \/ Pending(r)]

\* ------------------------------------------------------------ Reconcile
\* a drift test that does not ask for a recorded hash
SpecDriftUngated(req) == req.status.hash # computeSpecHash(req.spec)

\* reconcileNormal's first test: a spec hash was recorded and the spec's differs
SpecDrift(req) ==
    req.status.hash # <<>> /\ req.status.hash # computeSpecHash(req.spec)

\* Reconcile: fetch the request, branch on deletionTimestamp, add the finalizer,
\* detect drift, validate the request
ReconcileStart(r) ==
    /\ pc[r] = "idle"
    /\ ghr[r].exists
    /\ UNCHANGED <<claims, gws, lbcs, nsLabel, certs, dns, faults, placed, tmp>>
    /\ drift' = [drift EXCEPT ![r] = StartPass(r)]
    /\ IF ghr[r].deleting
       THEN /\ ghr[r].finalizer
            /\ Goto(r, "t_begin", ghr[r].status)
            /\ UNCHANGED ghr
       ELSE LET st == validateAssignedResources(ghr[r].status)
            IN /\ ~SpecDrift(ghr[r])
               /\ IF validateRequest(ghr[r].spec)
                  THEN /\ ghr' = [ghr EXCEPT ![r].finalizer = TRUE, ![r].status = st]
                       /\ Goto(r, "claim", st)
                  ELSE /\ ghr' = [ghr EXCEPT ![r].finalizer = TRUE,
                                     ![r].status = setCondition(st, ConditionTypeReady,
                                                      "False", "ValidationFailed")]
                       /\ Return(r, "err")

\* a lookup that takes any existing claim for the caller's own
OwnsAnyClaim(c, r) == TRUE

\* the owner comparison of ensureDomainClaim: namespace, name and UID
OwnsClaim(c, r) == c.ownerRef = OwnerRef(r)

\* a Get that finds no claim, whatever the store holds
GetClaimMiss(store, name) == {}

\* the Get of a claim by name, as a set (empty on NotFound)
GetClaim(store, name) == {c \in store : c.name = name}

\* ensureDomainClaim, first half: Get the claim by its deterministic name
ClaimGet(r) ==
    /\ pc[r] = "claim"
    /\ UNCHANGED <<claims, gws, lbcs, nsLabel, certs, dns, placed, drift, tmp>>
    /\ LET name == generateClaimName(ghr[r].spec.zoneId, ghr[r].spec.hostname)
           found == GetClaim(claims, name)
           lost == setCondition(mem[r], ConditionTypeClaimed, "False", "AlreadyClaimed")
           won == setCondition(mem[r], ConditionTypeClaimed, "True", "Claimed")
       IN \/ \* the Get fails with an error other than NotFound
             /\ CanFail
             /\ Fail
             /\ Persist(r, setCondition(mem[r], ConditionTypeClaimed, "False",
                                        "ClaimFailed"))
             /\ Return(r, "err")
          \/ /\ found # {}
             /\ UNCHANGED faults
             /\ IF \E c \in found : OwnsClaim(c, r)
                THEN Goto(r, Advance(won), won) /\ UNCHANGED ghr
                ELSE Persist(r, lost) /\ Return(r, "none")
          \/ /\ found = {}
             /\ UNCHANGED <<faults, ghr>>
             /\ Goto(r, "claim_create", mem[r])

\* a store that accepts a second object under a taken name
CreateClaimUnchecked(store, claim) == store \cup {claim}

\* the store's Create of a cluster-scoped object: AlreadyExists on a taken name
CreateClaim(store, claim) ==
    IF \E c \in store : c.name = claim.name THEN store ELSE store \cup {claim}

\* the Create of the claim fails because its name is taken
IsAlreadyExists(store, claim) == \E c \in store : c.name = claim.name

\* ensureDomainClaim, second half: Create the claim
ClaimCreate(r) ==
    /\ pc[r] = "claim_create"
    /\ UNCHANGED <<gws, lbcs, nsLabel, certs, dns, faults, placed, drift, tmp>>
    /\ LET name == generateClaimName(ghr[r].spec.zoneId, ghr[r].spec.hostname)
           claim == [name |-> name, zoneId |-> ghr[r].spec.zoneId,
                     hostname |-> ghr[r].spec.hostname, ownerRef |-> OwnerRef(r)]
           lost == setCondition(mem[r], ConditionTypeClaimed, "False", "AlreadyClaimed")
           won == setCondition(mem[r], ConditionTypeClaimed, "True", "Claimed")
       IN /\ claims' = CreateClaim(claims, claim)
          /\ IF IsAlreadyExists(claims, claim)
             THEN Persist(r, lost) /\ Return(r, "none")
             ELSE Goto(r, Advance(won), won) /\ UNCHANGED ghr

\* Step 3: request the certificate
CertRequest(r) ==
    /\ pc[r] = "cert"
    /\ UNCHANGED <<claims, gws, lbcs, nsLabel, dns, faults, placed, drift, tmp>>
    /\ IF \E c \in CertIds : certs[c].status = "ABSENT"
       THEN \E c \in CertIds :
              /\ certs[c].status = "ABSENT"
              /\ certs' = [certs EXCEPT ![c] = [status |-> "NEW",
                              host |-> ghr[r].spec.hostname, owner |-> r,
                              inUse |-> FALSE]]
              /\ LET st == setCondition([mem[r] EXCEPT !.certArn = c],
                               ConditionTypeCertificateRequested, "True", "Requested")
                 IN Persist(r, st) /\ Goto(r, Advance(st), st)
       ELSE /\ UNCHANGED certs
            /\ Persist(r, setCondition(mem[r], ConditionTypeCertificateRequested,
                                       "False", "RequestFailed"))
            /\ Return(r, "err")

\* ensureValidationRecords on a list ACM has not filled yet: the sentinel error
ErrValidationRecordsNotReady(records) == records = {}

\* a Step 4 that treats every error of ensureValidationRecords alike
ValidationErrorAsFailure(notReady) ==
    [reason |-> "ValidationRecordFailed", rq |-> "err"]

\* Step 4 on an error of ensureValidationRecords: the sentinel is a wait of
\* 15 seconds, any other error goes to the work queue
ValidationError(notReady) ==
    IF notReady THEN [reason |-> "PendingValidationRecords", rq |-> "15s"]
    ELSE [reason |-> "ValidationRecordFailed", rq |-> "err"]

\* Step 4: ensureValidationRecords
EnsureValidation(r) ==
    /\ pc[r] = "validate"
    /\ UNCHANGED <<claims, gws, lbcs, nsLabel, certs, faults, placed, drift, tmp>>
    /\ LET c == mem[r].certArn
           stopped(notReady) ==
               setCondition(mem[r], ConditionTypeDnsValidated, "False",
                            ValidationError(notReady).reason)
           done == setCondition(mem[r], ConditionTypeDnsValidated, "True",
                                "RecordsCreated")
       IN IF ~CertExists(c)
          THEN /\ Persist(r, stopped(FALSE))
               /\ Return(r, ValidationError(FALSE).rq)
               /\ UNCHANGED dns
          ELSE IF ErrValidationRecordsNotReady(ValidationRecords(c))
          THEN /\ Persist(r, stopped(TRUE))
               /\ Return(r, ValidationError(TRUE).rq)
               /\ UNCHANGED dns
          ELSE /\ dns' = UpsertRecords(dns, ghr[r].spec.zoneId, ValidationRecords(c), r)
               /\ Persist(r, done)
               /\ Goto(r, Advance(done), done)

\* checkCertificateStatus: "issued", "pending" or "error"
checkCertificateStatus(c) ==
    IF ~CertExists(c) THEN "error"
    ELSE IF certs[c].status = "ISSUED" THEN "issued"
    ELSE IF certs[c].status \in {"FAILED", "VALIDATION_TIMED_OUT", "REVOKED"} THEN "error"
    ELSE "pending"

\* Step 5: wait for issuance
CheckIssued(r) ==
    /\ pc[r] = "issue"
    /\ UNCHANGED <<claims, gws, lbcs, nsLabel, certs, dns, faults, placed, drift, tmp>>
    /\ LET res == checkCertificateStatus(mem[r].certArn)
           done == setCondition(mem[r], ConditionTypeCertificateIssued, "True", "Issued")
       IN IF res = "error"
          THEN /\ Persist(r, setCondition(mem[r], ConditionTypeCertificateIssued,
                                          "False", "CheckFailed"))
               /\ Return(r, "err")
          ELSE IF res = "pending"
          THEN /\ Persist(r, setCondition(mem[r], ConditionTypeCertificateIssued,
                                          "False", "PendingIssuance"))
               /\ Return(r, "30s")
          ELSE Persist(r, done) /\ Goto(r, Advance(done), done)


\* ------------------------------------------------------------ Step 6: assignment
\* a failed Step 6 that is not handed back to the work queue
AttachmentFailedForGood(r) ==
    /\ Persist(r, setCondition(mem[r], ConditionTypeListenerAttached, "False",
                               "AttachmentFailed"))
    /\ Return(r, "none")

\* Step 6 failed: ListenerAttached=False, the error goes to the work queue
AttachmentFailed(r) ==
    /\ Persist(r, setCondition(mem[r], ConditionTypeListenerAttached, "False",
                               "AttachmentFailed"))
    /\ Return(r, "err")

Attached(r, g) ==
    LET st == setCondition([mem[r] EXCEPT !.gw = g], ConditionTypeListenerAttached,
                           "True", "Attached")
    IN Persist(r, st) /\ Goto(r, Advance(st), st)

\* a placement that takes no request to carry a selector
SelectorIgnored(spec) == FALSE

\* the request carries a gatewaySelector
SelectorSet(spec) == spec.selector # ""

\* ensureGatewayAssignment up to its first write: keep the assigned gateway if it
\* still exists, else select one; with none selected, create gw-NN-config
AssignSelect(r) ==
    /\ pc[r] = "assign"
    /\ UNCHANGED <<claims, gws, nsLabel, certs, dns, faults, placed, drift>>
    /\ LET spec == ghr[r].spec
           sel == SelectGateway(gws, EffVisibility(spec), spec.wafArn, spec.selector)
           index == GetNextGatewayIndex(gws)
       IN IF mem[r].gw # 0 /\ gws[mem[r].gw].exists
          THEN /\ Attached(r, mem[r].gw)
               /\ UNCHANGED <<lbcs, tmp>>
          ELSE IF sel = 0 /\ SelectorSet(spec)
          THEN AttachmentFailed(r) /\ UNCHANGED lbcs
          ELSE IF sel = 0
          THEN /\ index <= MaxGw
               /\ lbcs' = [lbcs EXCEPT ![index] =
                              ensureLoadBalancerConfiguration(<<mem[r].certArn>>,
                                  EffVisibility(spec), spec.wafArn)]
               /\ tmp' = [tmp EXCEPT ![r].sel = index]
               /\ pc' = [pc EXCEPT ![r] = "assign_create"]
               /\ UNCHANGED <<ghr, mem, requeue>>
          ELSE /\ tmp' = [tmp EXCEPT ![r].sel = sel,
                                     ![r].arns = getGatewayCertificateARNs(sel)]
               /\ pc' = [pc EXCEPT ![r] = "assign_write"]
               /\ UNCHANGED <<ghr, mem, requeue, lbcs>>

\* ensureGatewayAssignment, new gateway: Create gw-NN (AlreadyExists when another
\* request created it meanwhile), then persist the assignment
AssignCreate(r) ==
    /\ pc[r] = "assign_create"
    /\ UNCHANGED <<claims, lbcs, nsLabel, certs, dns, faults, placed, drift>>
    /\ LET spec == ghr[r].spec
           index == tmp[r].sel
       IN IF gws[index].exists
          THEN /\ AttachmentFailed(r)
               /\ UNCHANGED gws
          ELSE /\ gws' = [gws EXCEPT ![index] =
                             CreateGateway(EffVisibility(spec), spec.wafArn)]
               /\ Attached(r, index)
               /\ tmp' = [tmp EXCEPT ![r] = NoTmp]

\* ensureGatewayAssignment, existing gateway: write the re-synthesized
\* gw-NN-config, then persist the assignment
AssignWrite(r) ==
    /\ pc[r] = "assign_write"
    /\ UNCHANGED <<claims, gws, nsLabel, certs, dns, faults, placed, drift>>
    /\ LET spec == ghr[r].spec
           g == tmp[r].sel
       IN /\ lbcs' = [lbcs EXCEPT ![g] =
                         ensureLoadBalancerConfiguration(
                             WithNewCert(tmp[r].arns, mem[r].certArn),
                             EffVisibility(spec), spec.wafArn)]
          /\ Attached(r, g)
          /\ tmp' = [tmp EXCEPT ![r] = NoTmp]

\* ------------------------------------------------------------ Step 7: alias
\* an alias step that takes a missing address for a failure
EnsureAliasNoWait(r) ==
    /\ pc[r] = "alias"
    /\ UNCHANGED <<claims, gws, lbcs, nsLabel, certs, faults, placed, drift, tmp>>
    /\ LET g == mem[r].gw
           done == setCondition([mem[r] EXCEPT !.lb = g], ConditionTypeDnsAliasReady,
                                "True", "Created")
       IN IF g = 0 \/ ~gws[g].exists
          THEN /\ Persist(r, setCondition(mem[r], ConditionTypeDnsAliasReady, "False",
                                          "AliasFailed"))
               /\ Return(r, "err")
               /\ UNCHANGED dns
          ELSE IF ~gws[g].addr
          THEN /\ Persist(r, setCondition(mem[r], ConditionTypeDnsAliasReady, "False",
                                          "AliasFailed"))
               /\ Return(r, "err")
               /\ UNCHANGED dns
          ELSE /\ dns' = CreateOrUpdateRecord(dns, ghr[r].spec.zoneId,
                             AliasRecord(ghr[r].spec.hostname, g), r)
               /\ Persist(r, done)
               /\ Goto(r, Advance(done), done)

\* ensureRoute53Alias
EnsureAlias(r) ==
    /\ pc[r] = "alias"
    /\ UNCHANGED <<claims, gws, lbcs, nsLabel, certs, faults, placed, drift, tmp>>
    /\ LET g == mem[r].gw
           done == setCondition([mem[r] EXCEPT !.lb = g], ConditionTypeDnsAliasReady,
                                "True", "Created")
       IN IF g = 0 \/ ~gws[g].exists
          THEN /\ Persist(r, setCondition(mem[r], ConditionTypeDnsAliasReady, "False",
                                          "AliasFailed"))
               /\ Return(r, "err")
               /\ UNCHANGED dns
          ELSE IF ~gws[g].addr
          THEN Return(r, "30s") /\ UNCHANGED <<ghr, dns>>
          ELSE /\ dns' = CreateOrUpdateRecord(dns, ghr[r].spec.zoneId,
                             AliasRecord(ghr[r].spec.hostname, g), r)
               /\ Persist(r, done)
               /\ Goto(r, Advance(done), done)

\* ------------------------------------------------------------ Steps 8 and 9
\* ensureNamespaceLabel, then the read half of ensureGatewayConfiguration
SyncList(r) ==
    /\ pc[r] = "sync"
    /\ UNCHANGED <<ghr, claims, gws, lbcs, certs, dns, faults, placed, drift, mem, requeue>>
    /\ nsLabel' = IF mem[r].gw # 0
                  THEN [nsLabel EXCEPT ![Namespace(r)] = mem[r].gw]
                  ELSE nsLabel
    /\ tmp' = [tmp EXCEPT ![r].arns = IF mem[r].gw # 0
                                      THEN getGatewayCertificateARNs(mem[r].gw)
                                      ELSE <<>>]
    /\ pc' = [pc EXCEPT ![r] = "sync_write"]

\* the write half of ensureGatewayConfiguration (gw-NN-config, then the
\* gateway's annotations), then Step 9: mark Ready
MarkReady(r) ==
    /\ pc[r] = "sync_write"
    /\ UNCHANGED <<claims, nsLabel, certs, dns, faults, placed, drift>>
    /\ LET spec == ghr[r].spec
           g == mem[r].gw
           st == setCondition([mem[r] EXCEPT !.hash = computeSpecHash(spec)],
                              ConditionTypeReady, "True", "Ready")
       IN /\ IF g # 0
             THEN /\ lbcs' = [lbcs EXCEPT ![g] =
                                 ensureLoadBalancerConfiguration(
                                     WithNewCert(tmp[r].arns, mem[r].certArn),
                                     EffVisibility(spec), spec.wafArn)]
                  /\ gws' = IF gws[g].exists
                            THEN [gws EXCEPT ![g].visibility = EffVisibility(spec),
                                             ![g].waf = spec.wafArn]
                            ELSE gws
             ELSE UNCHANGED <<lbcs, gws>>
          /\ Persist(r, st)
          /\ Return(r, "none")


\* ------------------------------------------------------------ teardown
\* a release that deletes the claim of the request's pair whoever owns it
deleteDomainClaimByName(store, r) ==
    LET name == generateClaimName(ghr[r].spec.zoneId, ghr[r].spec.hostname)
    IN {c \in store : c.name # name}

\* deleteDomainClaim: delete the claim of the request's pair if this request owns it
deleteDomainClaim(store, r) ==
    LET name == generateClaimName(ghr[r].spec.zoneId, ghr[r].spec.hostname)
    IN {c \in store : ~(c.name = name /\ c.ownerRef = OwnerRef(r))}

\* reconcileDelete, Steps 1 and 2 up to the list of removeCertificateFromGateway
TeardownBegin(r) ==
    /\ pc[r] = "t_begin"
    /\ UNCHANGED <<claims, gws, lbcs, nsLabel, certs, faults, placed, drift, requeue>>
    /\ LET st == setCondition(mem[r], ConditionTypeDeleting, "True", "DeletionInProgress")
           g == st.gw
       IN /\ Persist(r, st)
          /\ mem' = [mem EXCEPT ![r] = st]
          /\ dns' = IF st.lb # 0
                    THEN DeleteRecord(dns, ghr[r].spec.zoneId,
                                      AliasRecord(ghr[r].spec.hostname, st.lb))
                    ELSE dns
          /\ IF g # 0 /\ st.certArn # 0 /\ gws[g].exists
             THEN /\ tmp' = [tmp EXCEPT ![r] =
                                [sel |-> g, arns |-> getGatewayCertificateARNs(g),
                                 vis |-> IF gws[g].visibility = ""
                                         THEN DefaultVisibility ELSE gws[g].visibility,
                                 waf |-> gws[g].waf]]
                  /\ pc' = [pc EXCEPT ![r] = "t_write"]
             ELSE /\ pc' = [pc EXCEPT ![r] = "t_cert"]
                  /\ UNCHANGED tmp

\* removeCertificateFromGateway: write the re-synthesized gw-NN-config
TeardownWrite(r) ==
    /\ pc[r] = "t_write"
    /\ UNCHANGED <<ghr, claims, gws, nsLabel, certs, dns, faults, placed, drift, mem, requeue>>
    /\ lbcs' = [lbcs EXCEPT ![tmp[r].sel] =
                   ensureLoadBalancerConfiguration(WithNewCert(tmp[r].arns, 0),
                                                   tmp[r].vis, tmp[r].waf)]
    /\ tmp' = [tmp EXCEPT ![r] = NoTmp]
    /\ pc' = [pc EXCEPT ![r] = "t_cert"]

\* an in-use check that never reports the certificate in use
NeverInUse(c, describeOk) == FALSE

\* isCertificateInUse: a failed Describe is an error, on which teardown continues
isCertificateInUse(c, describeOk) == describeOk /\ CertExists(c) /\ certs[c].inUse

\* reconcileDelete, Steps 3 to 7: namespace label, validation records, the
\* in-use check, the certificate, the claim.  describeOk and deleteOk are the
\* outcomes of the two ACM calls.
TeardownCert(r, describeOk, deleteOk) ==
    /\ pc[r] = "t_cert"
    /\ UNCHANGED <<gws, lbcs, placed, drift>>
    /\ faults' = faults + (IF describeOk THEN 0 ELSE 1) + (IF deleteOk THEN 0 ELSE 1)
    /\ faults' <= MaxFaults
    /\ LET c == mem[r].certArn
           waiting == setCondition(mem[r], ConditionTypeDeleting, "True",
                                   "WaitingForCertDetachment")
           inUse == isCertificateInUse(c, describeOk)
       IN /\ nsLabel' = [nsLabel EXCEPT ![Namespace(r)] = 0]
          /\ dns' = IF CertExists(c)
                    THEN DeleteRecords(dns, ghr[r].spec.zoneId, ValidationRecords(c))
                    ELSE dns
          /\ IF c # 0 /\ inUse
             THEN /\ deleteOk
                  /\ Persist(r, waiting)
                  /\ Return(r, "15s")
                  /\ UNCHANGED <<certs, claims>>
             ELSE /\ (c = 0 => describeOk /\ deleteOk)
                  /\ certs' = IF CertExists(c) /\ deleteOk /\ ~certs[c].inUse
                              THEN [certs EXCEPT ![c].status = "DELETED"]
                              ELSE certs
                  /\ claims' = deleteDomainClaim(claims, r)
                  /\ pc' = [pc EXCEPT ![r] =
                               IF mem[r].gw # 0 THEN "t_cleanup" ELSE "t_final"]
                  /\ UNCHANGED <<ghr, mem, tmp, requeue>>

\* cleanupEmptyGateway, the count: the other requests assigned to the gateway
OtherAssignments(r, g) ==
    {o \in Reqs \ {r} : ghr[o].exists /\ ghr[o].status.gw = g}

TeardownCleanupList(r) ==
    /\ pc[r] = "t_cleanup"
    /\ UNCHANGED <<ghr, claims, gws, lbcs, nsLabel, certs, dns, faults, placed, drift, mem,
                   tmp, requeue>>
    /\ pc' = [pc EXCEPT ![r] = IF OtherAssignments(r, mem[r].gw) # {}
                               THEN "t_final" ELSE "t_cleanup_del"]

\* a cleanup whose failed delete is only logged
TeardownCleanupDeleteLogged(r, ok) ==
    /\ pc[r] = "t_cleanup_del"
    /\ UNCHANGED <<ghr, claims, nsLabel, certs, dns, placed, drift, gws, mem, tmp, requeue>>
    /\ IF ok THEN UNCHANGED faults ELSE CanFail /\ Fail
    /\ lbcs' = [lbcs EXCEPT ![mem[r].gw] = NoLbc]
    /\ pc' = [pc EXCEPT ![r] = "t_final"]

\* cleanupEmptyGateway, the deletes: gw-NN-config, then gw-NN; a failed delete
\* (of gw-NN-config, with nothing deleted, or of gw-NN) blocks the teardown
TeardownCleanupDelete(r, ok) ==
    /\ pc[r] = "t_cleanup_del"
    /\ UNCHANGED <<ghr, claims, nsLabel, certs, dns, placed, drift>>
    /\ LET g == mem[r].gw
       IN IF ok
          THEN /\ lbcs' = [lbcs EXCEPT ![g] = NoLbc]
               /\ gws' = [gws EXCEPT ![g] = NoGw]
               /\ pc' = [pc EXCEPT ![r] = "t_final"]
               /\ UNCHANGED <<faults, mem, tmp, requeue>>
          ELSE /\ CanFail
               /\ Fail
               /\ \/ lbcs[g].exists /\ UNCHANGED lbcs
                  \/ gws[g].exists /\ lbcs' = [lbcs EXCEPT ![g] = NoLbc]
               /\ Return(r, "err")
               /\ UNCHANGED gws

\* reconcileDelete, Step 8: clear the assignment, remove the finalizer; the
\* store then removes the object
TeardownFinal(r) ==
    /\ pc[r] = "t_final"
    /\ UNCHANGED <<claims, gws, lbcs, nsLabel, certs, dns, faults, placed, drift>>
    /\ ghr' = [ghr EXCEPT ![r] = GoneReq(ghr[r].spec)]
    /\ Return(r, "none")

\* ------------------------------------------------------------ environment
\* the user deletes the request: deletionTimestamp is set while a finalizer holds it
UserDelete(r) ==
    /\ pc[r] = "idle"
    /\ ghr[r].exists
    /\ ~ghr[r].deleting
    /\ UNCHANGED <<claims, gws, lbcs, nsLabel, certs, dns, faults, placed, drift, pc, mem, tmp>>
    /\ ghr' = [ghr EXCEPT ![r] = IF ghr[r].finalizer
                                 THEN [ghr[r] EXCEPT !.deleting = TRUE]
                                 ELSE GoneReq(ghr[r].spec)]
    /\ requeue' = [requeue EXCEPT ![r] = IF ghr[r].finalizer THEN "now" ELSE "none"]

\* ACM computes the validation records of a requested certificate
ACMPublishRecords(c) ==
    /\ certs[c].status = "NEW"
    /\ certs' = [certs EXCEPT ![c].status = "PENDING_VALIDATION"]
    /\ UNCHANGED <<ghr, claims, gws, lbcs, nsLabel, dns, pc, mem, tmp, requeue, faults,
                   placed, drift>>

\* ACM issues a certificate whose validation record it finds in the zone
ACMIssue(c) ==
    /\ certs[c].status = "PENDING_VALIDATION"
    /\ \E v \in ValidationRecords(c) :
          \E x \in dns : x.name = v.name /\ x.type = v.type /\ x.value = v.value
    /\ certs' = [certs EXCEPT ![c].status = "ISSUED"]
    /\ UNCHANGED <<ghr, claims, gws, lbcs, nsLabel, dns, pc, mem, tmp, requeue, faults,
                   placed, drift>>

\* the gateways whose LoadBalancerConfiguration lists certificate c
ListedOn(c) ==
    {g \in GwIdx : gws[g].exists /\ lbcs[g].exists
                   /\ \E i \in 1 .. Len(Bundle(lbcs[g])) : Bundle(lbcs[g])[i] = c}

\* the load balancer controller provisions the gateway's load balancer
LBProvision(g) ==
    /\ gws[g].exists
    /\ lbcs[g].exists
    /\ ~gws[g].addr
    /\ gws' = [gws EXCEPT ![g].addr = TRUE]
    /\ UNCHANGED <<ghr, claims, lbcs, nsLabel, certs, dns, pc, mem, tmp, requeue, faults,
                   placed, drift>>

\* the load balancer attaches a listed certificate to its listener
LBAttach(c) ==
    /\ certs[c].status = "ISSUED"
    /\ ~certs[c].inUse
    /\ \E g \in ListedOn(c) : gws[g].addr
    /\ certs' = [certs EXCEPT ![c].inUse = TRUE]
    /\ UNCHANGED <<ghr, claims, gws, lbcs, nsLabel, dns, pc, mem, tmp, requeue, faults,
                   placed, drift>>

\* the load balancer detaches a certificate that is no longer listed
LBDetach(c) ==
    /\ certs[c].inUse
    /\ ListedOn(c) = {}
    /\ certs' = [certs EXCEPT ![c].inUse = FALSE]
    /\ UNCHANGED <<ghr, claims, gws, lbcs, nsLabel, dns, pc, mem, tmp, requeue, faults,
                   placed, drift>>

\* ------------------------------------------------------------ specification
Next ==
    \/ \E r \in Reqs : ReconcileStart(r)
    \/ \E r \in Reqs : ClaimGet(r)
    \/ \E r \in Reqs : ClaimCreate(r)
    \/ \E r \in Reqs : CertRequest(r)
    \/ \E r \in Reqs : EnsureValidation(r)
    \/ \E r \in Reqs : CheckIssued(r)
    \/ \E r \in Reqs : AssignSelect(r)
    \/ \E r \in Reqs : AssignCreate(r)
    \/ \E r \in Reqs : AssignWrite(r)
    \/ \E r \in Reqs : EnsureAlias(r)
    \/ \E r \in Reqs : SyncList(r)
    \/ \E r \in Reqs : MarkReady(r)
    \/ \E r \in Reqs : TeardownBegin(r)
    \/ \E r \in Reqs : TeardownWrite(r)
    \/ \E r \in Reqs : \E describeOk, deleteOk \in BOOLEAN :
          TeardownCert(r, describeOk, deleteOk)
    \/ \E r \in Reqs : TeardownCleanupList(r)
    \/ \E r \in Reqs : \E ok \in BOOLEAN : TeardownCleanupDelete(r, ok)
    \/ \E r \in Reqs : TeardownFinal(r)
    \/ \E r \in Reqs : UserDelete(r)
    \/ \E c \in CertIds : ACMPublishRecords(c)
    \/ \E c \in CertIds : ACMIssue(c)
    \/ \E g \in GwIdx : LBProvision(g)
    \/ \E c \in CertIds : LBAttach(c)
    \/ \E c \in CertIds : LBDetach(c)

Spec == Init /\ [][Next]_vars


\* ------------------------------------------------------------ liveness
\* The work queue runs a started pass to its end and starts the pass that a
\* requeue (immediate, timed, or error backoff) or a deletion event asks for;
\* ACM publishes validation records and issues a validated certificate; the
\* load balancer controller provisions load balancers and detaches a
\* certificate that is no longer listed.
Fairness ==
    /\ \A r \in Reqs :
          /\ WF_vars(ReconcileStart(r) /\ requeue[r] # "none")
          /\ WF_vars(ClaimGet(r))
          /\ WF_vars(ClaimCreate(r))
          /\ WF_vars(CertRequest(r))
          /\ WF_vars(EnsureValidation(r))
          /\ WF_vars(CheckIssued(r))
          /\ WF_vars(AssignSelect(r))
          /\ WF_vars(AssignCreate(r))
          /\ WF_vars(AssignWrite(r))
          /\ WF_vars(EnsureAlias(r))
          /\ WF_vars(SyncList(r))
          /\ WF_vars(MarkReady(r))
          /\ WF_vars(TeardownBegin(r))
          /\ WF_vars(TeardownWrite(r))
          /\ WF_vars(\E describeOk, deleteOk \in BOOLEAN :
                        TeardownCert(r, describeOk, deleteOk))
          /\ WF_vars(TeardownCleanupList(r))
          /\ WF_vars(\E ok \in BOOLEAN : TeardownCleanupDelete(r, ok))
          /\ WF_vars(TeardownFinal(r))
    /\ \A c \in CertIds :
          /\ WF_vars(ACMPublishRecords(c))
          /\ WF_vars(ACMIssue(c))
          /\ WF_vars(LBDetach(c))
    /\ \A g \in GwIdx : WF_vars(LBProvision(g))

LiveSpec == InitSingle /\ [][Next]_vars /\ Fairness

\* the two requests of Init under the same scheduling
FairSpec == Init /\ [][Next]_vars /\ Fairness

\* ------------------------------------------------------------ capacity
Visibilities == {"internet-facing", "internal"}

RECURSIVE SumPlaced(_)
SumPlaced(g) == IF g = 0 THEN 0 ELSE placed[g] + SumPlaced(g - 1)

TotalPlaced == SumPlaced(MaxGw)

\* one request runs Step 6 alone: SelectGateway, else GetNextGatewayIndex and
\* CreateGateway; attachCertificateToGateway leaves the gateway as it is
Place(visibility) ==
    /\ TotalPlaced < MaxPlaced
    /\ LET sel == SelectGateway(gws, visibility, "", "")
           index == GetNextGatewayIndex(gws)
       IN IF sel # 0
          THEN /\ placed' = [placed EXCEPT ![sel] = @ + 1]
               /\ UNCHANGED gws
          ELSE /\ index <= MaxGw
               /\ gws' = [gws EXCEPT ![index] = CreateGateway(visibility, "")]
               /\ placed' = [placed EXCEPT ![index] = @ + 1]
    /\ UNCHANGED <<ghr, claims, lbcs, nsLabel, certs, dns, pc, mem, tmp, requeue, faults,
                   drift>>

NextCap == \E v \in Visibilities : Place(v)

SpecCap == Init /\ [][NextCap]_vars

\* ------------------------------------------------------------ mixed requests
Wafs == {"", "w"}

\* the specs of a second request for another hostname: either visibility, WAF
\* set or unset
MixSpecs ==
    {[MkSpec(Host2) EXCEPT !.visibility = v, !.wafArn = w] :
        v \in {"", "internal"}, w \in Wafs}

\* two requests for different hostnames submitted to an empty pool
InitMix ==
    /\ \E s \in MixSpecs :
          ghr = [r \in Reqs |-> IF r = "r1" THEN NewReq(MkSpec(Host1)) ELSE NewReq(s)]
    /\ gws = EmptyPool
    /\ InitRest

MixSpec == InitMix /\ [][Next]_vars

\* ------------------------------------------------------------ external changes
Persisted(r, type) == ghr[r].status.conds[type]

Live(r) == ghr[r].exists /\ ~ghr[r].deleting

\* a pool whose gw-01 carries the label the selector asks for
LabelledPool ==
    [EmptyPool EXCEPT ![1] = [CreateGateway(DefaultVisibility, "") EXCEPT !.label = "s"]]

\* a pool with two idle gateways
PairPool ==
    [g \in GwIdx |-> IF g <= 2 THEN CreateGateway(DefaultVisibility, "") ELSE NoGw]

\* the specs of a single request: without and with a gatewaySelector
OneSpecs == {MkSpec(Host1), [MkSpec(Host1) EXCEPT !.selector = "s"]}

InitOne ==
    /\ \E s \in OneSpecs :
          ghr = [r \in Reqs |-> IF r = "r1" THEN NewReq(s) ELSE GoneReq(MkSpec(Host2))]
    /\ gws \in {EmptyPool, LabelledPool, PairPool}
    /\ InitRest

\* what an external change to a resource of request r starts to follow: the
\* change itself when it is the first one and hits a Ready request
Followed(r, kind) ==
    [kind |-> IF Live(r) /\ Persisted(r, ConditionTypeReady) = "True"
                 /\ drift[r].kind = "none"
              THEN kind ELSE "other",
     passes |-> 0, late |-> FALSE]

\* an external change to a resource of the requests hit: they start to follow
\* it, and a request that follows an earlier change no longer does
Disturb(hit, kind) ==
    drift' = [r \in Reqs |->
                 IF r \in hit THEN Followed(r, kind)
                 ELSE IF drift[r].kind # "none" THEN [drift[r] EXCEPT !.kind = "other"]
                 ELSE drift[r]]

\* somebody deletes a certificate at ACM (ACM has an identifier left to hand out)
ExternalCertDelete(c) ==
    /\ CertExists(c)
    /\ \E d \in CertIds : certs[d].status = "ABSENT"
    /\ certs' = [certs EXCEPT ![c].status = "DELETED", ![c].inUse = FALSE]
    /\ Disturb({r \in Reqs : ghr[r].exists /\ ghr[r].status.certArn = c}, "cert")
    /\ UNCHANGED <<ghr, claims, gws, lbcs, nsLabel, dns, pc, mem, tmp, requeue, faults,
                   placed>>

\* somebody deletes a pool gateway; its LoadBalancerConfiguration stays
ExternalGatewayDelete(g) ==
    /\ gws[g].exists
    /\ gws' = [gws EXCEPT ![g] = NoGw]
    /\ Disturb({r \in Reqs : ghr[r].exists /\ ghr[r].status.gw = g}, "gw")
    /\ UNCHANGED <<ghr, claims, lbcs, nsLabel, certs, dns, pc, mem, tmp, requeue, faults,
                   placed>>

\* ACM gives up on a certificate: validation fails or times out, or an issued
\* certificate is revoked
ACMFail(c, status) ==
    /\ \/ /\ certs[c].status = "PENDING_VALIDATION"
          /\ status \in {"FAILED", "VALIDATION_TIMED_OUT"}
       \/ /\ certs[c].status = "ISSUED"
          /\ status = "REVOKED"
    /\ certs' = [certs EXCEPT ![c].status = status]
    /\ Disturb({r \in Reqs : ghr[r].exists /\ ghr[r].status.certArn = c}, "other")
    /\ UNCHANGED <<ghr, claims, gws, lbcs, nsLabel, dns, pc, mem, tmp, requeue, faults,
                   placed>>

NextDrift ==
    \/ Next
    \/ \E c \in CertIds : ExternalCertDelete(c)
    \/ \E g \in GwIdx : ExternalGatewayDelete(g)
    \/ \E c \in CertIds :
          \E status \in {"FAILED", "VALIDATION_TIMED_OUT", "REVOKED"} : ACMFail(c, status)

\* a single request, with external deletions and certificate failures
DriftSpec == InitOne /\ [][NextDrift]_vars

\* somebody deletes the LoadBalancerConfiguration of a pool gateway
ExternalLbcDelete(g) ==
    /\ lbcs[g].exists
    /\ lbcs' = [lbcs EXCEPT ![g] = NoLbc]
    /\ Disturb({r \in Reqs : ghr[r].exists /\ ghr[r].status.gw = g}, "lbc")
    /\ UNCHANGED <<ghr, claims, gws, nsLabel, certs, dns, pc, mem, tmp, requeue, faults,
                   placed>>

NextLbcDrift ==
    \/ Next
    \/ \E g \in GwIdx : ExternalGatewayDelete(g)
    \/ \E g \in GwIdx : ExternalLbcDelete(g)

\* a single request, with external deletions of gateways and of
\* LoadBalancerConfigurations
LbcDriftSpec == InitOne /\ [][NextLbcDrift]_vars

\* ------------------------------------------------------------ spec edits
\* the user replaces spec.hostname of a request that is not being deleted; the
\* change event asks for a pass
UserEdit(r, hostname) ==
    /\ pc[r] = "idle"
    /\ Live(r)
    /\ hostname # ghr[r].spec.hostname
    /\ ghr' = [ghr EXCEPT ![r].spec.hostname = hostname]
    /\ requeue' = [requeue EXCEPT ![r] = "now"]
    /\ UNCHANGED <<claims, gws, lbcs, nsLabel, certs, dns, faults, placed, drift, pc, mem,
                   tmp>>

\* a pass that finds spec drift: cleanupForReprovisioning, Steps 1 and 2 up to
\* the list of removeCertificateFromGateway; the alias is deleted under the
\* name and zone of the spec as it is now
ReprovisionBegin(r) ==
    /\ pc[r] = "idle"
    /\ Live(r)
    /\ SpecDrift(ghr[r])
    /\ UNCHANGED <<ghr, claims, gws, lbcs, nsLabel, certs, faults, placed, requeue>>
    /\ drift' = [drift EXCEPT ![r] = StartPass(r)]
    /\ LET st == ghr[r].status
           g == st.gw
       IN /\ mem' = [mem EXCEPT ![r] = st]
          /\ dns' = IF st.lb # 0
                    THEN DeleteRecord(dns, ghr[r].spec.zoneId,
                                      AliasRecord(ghr[r].spec.hostname, st.lb))
                    ELSE dns
          /\ IF g # 0 /\ st.certArn # 0 /\ gws[g].exists
             THEN /\ tmp' = [tmp EXCEPT ![r] =
                                [sel |-> g, arns |-> getGatewayCertificateARNs(g),
                                 vis |-> IF gws[g].visibility = ""
                                         THEN DefaultVisibility ELSE gws[g].visibility,
                                 waf |-> gws[g].waf]]
                  /\ pc' = [pc EXCEPT ![r] = "p_write"]
             ELSE /\ pc' = [pc EXCEPT ![r] = "p_cert"]
                  /\ UNCHANGED tmp

\* removeCertificateFromGateway: write the re-synthesized gw-NN-config
ReprovisionWrite(r) ==
    /\ pc[r] = "p_write"
    /\ UNCHANGED <<ghr, claims, gws, nsLabel, certs, dns, faults, placed, drift, mem, requeue>>
    /\ lbcs' = [lbcs EXCEPT ![tmp[r].sel] =
                   ensureLoadBalancerConfiguration(WithNewCert(tmp[r].arns, 0),
                                                   tmp[r].vis, tmp[r].waf)]
    /\ tmp' = [tmp EXCEPT ![r] = NoTmp]
    /\ pc' = [pc EXCEPT ![r] = "p_cert"]

\* cleanupForReprovisioning, Steps 3 to 6 (namespace label, validation records,
\* the certificate, the claim of the spec as it is now), then reconcileNormal
\* clears the status and asks for an immediate pass.  deleteOk is the outcome
\* of the DeleteCertificate call, which ACM also refuses for a certificate in use.
ReprovisionCert(r, deleteOk) ==
    /\ pc[r] = "p_cert"
    /\ UNCHANGED <<gws, lbcs, placed, drift>>
    /\ faults' = faults + (IF deleteOk THEN 0 ELSE 1)
    /\ faults' <= MaxFaults
    /\ LET c == mem[r].certArn
       IN /\ (c = 0 => deleteOk)
          /\ nsLabel' = [nsLabel EXCEPT ![Namespace(r)] = 0]
          /\ dns' = IF CertExists(c)
                    THEN DeleteRecords(dns, ghr[r].spec.zoneId, ValidationRecords(c))
                    ELSE dns
          /\ certs' = IF CertExists(c) /\ deleteOk /\ ~certs[c].inUse
                      THEN [certs EXCEPT ![c].status = "DELETED"]
                      ELSE certs
          /\ claims' = deleteDomainClaim(claims, r)
          /\ Persist(r, EmptyStatus)
          /\ Return(r, "now")

NextEdit ==
    \/ Next
    \/ \E hostname \in {Host1, Host2} : UserEdit("r1", hostname)
    \/ \E r \in Reqs : ReprovisionBegin(r)
    \/ \E r \in Reqs : ReprovisionWrite(r)
    \/ \E r \in Reqs : \E deleteOk \in BOOLEAN : ReprovisionCert(r, deleteOk)

\* two requests submitted for different hostnames to an empty pool
InitEdit ==
    /\ ghr = [r \in Reqs |-> IF r = "r1" THEN NewReq(MkSpec(Host1))
                                         ELSE NewReq(MkSpec(Host2))]
    /\ gws = EmptyPool
    /\ InitRest

\* two requests, the first of which the user may edit to the other's hostname
\* and back
EditSpec == InitEdit /\ [][NextEdit]_vars

\* a single request, whose hostname the user may edit
EditOneSpec == InitSingle /\ [][NextEdit]_vars

\* ------------------------------------------------------------ synthesizer
ArnIds == 1 .. MaxArns

\* the duplicate-free lists of identifiers getGatewayCertificateARNs and
\* syncLoadBalancerConfiguration can hand to the synthesizer, in any order
ArnLists ==
    {l \in UNION {[1 .. n -> ArnIds] : n \in 0 .. MaxArns} :
        \A i, j \in 1 .. Len(l) : l[i] = l[j] => i = j}

InitLbc ==
    /\ ghr = [r \in Reqs |-> IF r = "r1" THEN NewReq(MkSpec(Host1))
                                         ELSE GoneReq(MkSpec(Host2))]
    /\ gws = EmptyPool
    /\ claims = {}
    /\ lbcs = ConfigsOf(gws)
    /\ nsLabel = [n \in Namespaces |-> 0]
    /\ certs = [c \in CertIds |-> NoCert]
    /\ dns = {}
    /\ pc = [r \in Reqs |-> IF r = "r1" THEN "synth" ELSE "idle"]
    /\ mem = [r \in Reqs |-> EmptyStatus]
    /\ \E l \in ArnLists, v \in Visibilities, w \in Wafs :
          tmp = [r \in Reqs |-> IF r = "r1"
                                THEN [sel |-> 1, arns |-> l, vis |-> v, waf |-> w]
                                ELSE NoTmp]
    /\ requeue = [r \in Reqs |-> "none"]
    /\ faults = 0
    /\ placed = [g \in GwIdx |-> 0]
    /\ drift = [r \in Reqs |-> NoDrift]

\* one call of ensureLoadBalancerConfiguration with the given list
Synthesize(r) ==
    /\ pc[r] = "synth"
    /\ lbcs' = [lbcs EXCEPT ![tmp[r].sel] =
                   ensureLoadBalancerConfiguration(tmp[r].arns, tmp[r].vis, tmp[r].waf)]
    /\ pc' = [pc EXCEPT ![r] = "synth_done"]
    /\ UNCHANGED <<ghr, claims, gws, nsLabel, certs, dns, mem, tmp, requeue, faults,
                   placed, drift>>

NextLbc == \E r \in Reqs : Synthesize(r)

SpecLbc == InitLbc /\ [][NextLbc]_vars

\* ------------------------------------------------------------ properties
Pair(spec) == <<spec.zoneId, spec.hostname>>

\* the claim of request r's pair, as a set (empty when the pair is free)
ClaimOf(r) == {c \in claims : <<c.zoneId, c.hostname>> = Pair(ghr[r].spec)}

HeldByOther(r) == \E c \in ClaimOf(r) : c.ownerRef # OwnerRef(r)

\* C1: for any (zoneId, hostname) pair at most one DomainClaim exists, and as
\* long as a pair's claim exists its ownerRef does not change; so a pair has at
\* most one recorded owner at a time.
C1_OneClaimPerPair ==
    /\ [](\A c, d \in claims :
             (c.zoneId = d.zoneId /\ c.hostname = d.hostname) => c = d)
    /\ [][\A c \in claims : \A d \in claims' :
             (c.zoneId = d.zoneId /\ c.hostname = d.hostname)
                 => d.ownerRef = c.ownerRef]_vars

\* both requests ran ensureDomainClaim on the same pair: one claim, one owner
C1_Witness ==
    /\ Pair(ghr["r1"].spec) = Pair(ghr["r2"].spec)
    /\ Cardinality(claims) = 1
    /\ \E r \in Reqs : ghr[r].status.reasons[ConditionTypeClaimed] = "AlreadyClaimed"

CertsOf(r) == {c \in CertIds : CertExists(c) /\ certs[c].owner = r}
RecordsOf(r) == {x \in dns : x.by = r}
ClaimsOf(r) == {c \in claims : c.ownerRef = OwnerRef(r)}

\* C3: once a deleted request's finalizer has been removed (the object is gone),
\* none of its alias records, validation CNAME records, certificates or
\* DomainClaims remains.
C3_NothingLeftBehind ==
    \A r \in Reqs :
        ~ghr[r].exists => CertsOf(r) = {} /\ RecordsOf(r) = {} /\ ClaimsOf(r) = {}

\* C4: whenever no pass of a request is running, a persisted Ready=True comes
\* with Claimed, CertificateRequested, DnsValidated, CertificateIssued,
\* ListenerAttached and DnsAliasReady all True.
C4_ReadyImpliesAll ==
    \A r \in Reqs :
        (pc[r] = "idle" /\ ghr[r].exists /\ Persisted(r, ConditionTypeReady) = "True")
            => \A i \in 1 .. 6 : Persisted(r, CondOrder[i]) = "True"

\* C5: a teardown pass that reaches the in-use check while the authority
\* reports the request's certificate in use ends there: the certificate and
\* the claims are left as they are, the finalizer stays, and the pass returns
\* with a 15 second requeue.
C5_InUseBlocksTeardown ==
    [][\A r \in Reqs :
          (/\ pc[r] = "t_cert"
           /\ pc'[r] # pc[r]
           /\ mem[r].certArn # 0
           /\ CertExists(mem[r].certArn)
           /\ certs[mem[r].certArn].inUse
           /\ faults' = faults)
              => /\ certs' = certs
                 /\ claims' = claims
                 /\ ghr'[r].exists /\ ghr'[r].finalizer /\ ghr'[r].deleting
                 /\ pc'[r] = "idle"
                 /\ requeue'[r] = "15s"]_vars

\* a teardown pass has returned at the in-use check: the certificate is still
\* attached and exists, the claim is still held
C5_Witness ==
    \E r \in Reqs :
        /\ ghr[r].deleting /\ ghr[r].finalizer
        /\ pc[r] = "idle" /\ requeue[r] = "15s"
        /\ ghr[r].status.reasons[ConditionTypeDeleting] = "WaitingForCertDetachment"
        /\ certs[ghr[r].status.certArn].inUse
        /\ ClaimsOf(r) # {}


\* the sorted, duplicate-free sequence of a set of certificate identifiers
RECURSIVE SortedSeqOf(_)
SortedSeqOf(S) ==
    IF S = {} THEN <<>>
    ELSE LET m == CHOOSE x \in S : \A y \in S : x <= y
         IN <<m>> \o SortedSeqOf(S \ {m})

\* the certificates of the requests assigned to g that are not being deleted
AssignedCerts(g) ==
    {ghr[r].status.certArn : r \in {q \in Reqs : /\ ghr[q].exists
                                                  /\ ~ghr[q].deleting
                                                  /\ ghr[q].status.gw = g
                                                  /\ ghr[q].status.certArn # 0}}

\* no pass is running, and every request being deleted has had a teardown pass
Settled ==
    \A r \in Reqs :
        /\ pc[r] = "idle"
        /\ ghr[r].deleting => Persisted(r, ConditionTypeDeleting) = "True"

\* C6: whenever every pass has returned (a request being deleted having had its
\* teardown pass), the bundle of every gateway's LoadBalancerConfiguration,
\* defaultCertificate followed by certificates, is the sorted duplicate-free
\* sequence of the certificates of the requests assigned to the gateway that
\* are not being deleted.
C6_BundleIsAssignedCerts ==
    Settled => \A g \in GwIdx :
                  (gws[g].exists /\ lbcs[g].exists)
                      => Bundle(lbcs[g]) = SortedSeqOf(AssignedCerts(g))

\* C7: no gateway carries more than 20 requests with a certificate, nor more
\* than 100 rules; a request arriving at a gateway that carries 20 is placed
\* elsewhere.
C7_CapacityRespected ==
    \A g \in GwIdx :
        /\ placed[g] <= MaxCertificatesPerGateway
        /\ gws[g].ruleCount <= MaxRulesPerGateway

\* C8: once every request has been deleted and its teardown has completed, no
\* pool gateway and no LoadBalancerConfiguration is left.
C8_PoolEmptiedWithLastUser ==
    (\A r \in Reqs : ~ghr[r].exists)
        => \A g \in GwIdx : ~gws[g].exists /\ ~lbcs[g].exists

\* C9: a deletion started while the request's certificate is in use eventually
\* completes (the load balancer detaching a certificate once its gateway's
\* LoadBalancerConfiguration no longer lists it): the request is gone.
C9_DeletionCompletes ==
    \A r \in Reqs :
        (ghr[r].deleting /\ ghr[r].status.certArn # 0
         /\ certs[ghr[r].status.certArn].inUse) ~> ~ghr[r].exists

\* the single request is neither deleted nor hit by an API failure
Cooperative == faults = 0 /\ Live("r1")

\* every condition that is True in the persisted status comes after a True one
Ordered(r) ==
    \A i \in 2 .. Len(CondOrder) :
        Persisted(r, CondOrder[i]) = "True" => Persisted(r, CondOrder[i - 1]) = "True"

Range(l) == {l[i] : i \in 1 .. Len(l)}

\* C11: the LoadBalancerConfiguration synthesized from a list of certificate
\* identifiers depends only on the set of the identifiers, the scheme and the
\* WAF: its scheme and WAF are the ones given, its defaultCertificate is the
\* smallest identifier of the set and its certificates are the remaining ones
\* in ascending order, in whatever order the list gave them.
C11_BundleFromSetOnly ==
    \A r \in Reqs :
        pc[r] = "synth_done" =>
            LET S == Range(tmp[r].arns)
                lbc == lbcs[tmp[r].sel]
                least == CHOOSE x \in S : \A y \in S : x <= y
            IN /\ lbc.exists
               /\ lbc.scheme = tmp[r].vis
               /\ lbc.waf = tmp[r].waf
               /\ IF S = {}
                  THEN lbc.defaultCertificate = 0 /\ lbc.certificates = <<>>
                  ELSE /\ lbc.defaultCertificate = least
                       /\ lbc.certificates = SortedSeqOf(S \ {least})

\* a list of three or more identifiers given out of order has been synthesized
C11_Witness ==
    \E r \in Reqs :
        /\ pc[r] = "synth_done"
        /\ Len(tmp[r].arns) >= 3
        /\ tmp[r].arns[1] > tmp[r].arns[2]
        /\ lbcs[tmp[r].sel].defaultCertificate # tmp[r].arns[1]

\* no pass of any request is running
AllReturned == \A r \in Reqs : pc[r] = "idle"

\* the gateway request r is assigned to, as a set (empty when none)
GatewayOf(r) ==
    {g \in GwIdx : ghr[r].exists /\ ghr[r].status.gw = g /\ gws[g].exists}

\* C12: whenever every pass has returned, every request assigned to a gateway
\* has the wafArn of the gateway's waf-arn annotation and of the gateway's
\* LoadBalancerConfiguration (unset equals unset).
C12_WafHomogeneity ==
    AllReturned =>
        \A r \in Reqs : \A g \in GatewayOf(r) :
            /\ ghr[r].spec.wafArn = gws[g].waf
            /\ lbcs[g].exists => ghr[r].spec.wafArn = lbcs[g].waf

\* C13: whenever every pass has returned, every request assigned to a gateway
\* has the visibility of the gateway's visibility annotation and of the scheme
\* of the gateway's LoadBalancerConfiguration.
C13_VisibilityHomogeneity ==
    AllReturned =>
        \A r \in Reqs : \A g \in GatewayOf(r) :
            /\ EffVisibility(ghr[r].spec) = gws[g].visibility
            /\ lbcs[g].exists => EffVisibility(ghr[r].spec) = lbcs[g].scheme

\* request r carries a gatewaySelector and no pool gateway fits it
Unplaceable(r) ==
    /\ ghr[r].exists
    /\ ghr[r].spec.selector # ""
    /\ SelectGateway(gws, EffVisibility(ghr[r].spec), ghr[r].spec.wafArn,
                     ghr[r].spec.selector) = 0

\* C14: no step of a pass of a request that carries a gatewaySelector and is
\* not being deleted, taken while no pool gateway fits the request, brings a
\* gateway or a LoadBalancerConfiguration into existence; this holds of every
\* pass of the request, the first and every later one.
C14_SelectorCreatesNothing ==
    [][\A r \in Reqs :
          (Live(r) /\ Unplaceable(r) /\ pc[r] # "idle" /\ pc'[r] # pc[r])
              => \A g \in GwIdx : /\ gws'[g].exists => gws[g].exists
                                  /\ lbcs'[g].exists => lbcs[g].exists]_vars

\* a request with a selector reached the assignment twice with no gateway
\* fitting: both passes ended there, and the pool is still empty
C14_Witness ==
    \E r \in Reqs :
        /\ Live(r)
        /\ Unplaceable(r)
        /\ pc[r] = "idle"
        /\ drift[r].passes >= 2
        /\ Persisted(r, ConditionTypeCertificateIssued) = "True"
        /\ ghr[r].status.reasons[ConditionTypeListenerAttached] = "AttachmentFailed"
        /\ \A g \in GwIdx : ~gws[g].exists /\ ~lbcs[g].exists

\* the certificate of request r failed for good: failed, revoked or timed out
CertFailed(r) ==
    /\ mem[r].certArn # 0
    /\ certs[mem[r].certArn].status \in {"FAILED", "REVOKED", "VALIDATION_TIMED_OUT"}

\* C15: a pass that meets a failure that only a spec edit can cure (the pair is
\* claimed by another request; the certificate is failed, revoked or timed out
\* when its issuance is checked; a selector that no gateway fits when the
\* request is placed) ends there with the gating condition False and Ready
\* False (reason NoGatewayMatchingSelector in the selector case), without an
\* error and without a requeue.
C15_TerminalFailuresPark ==
    [][\A r \in Reqs :
          (Live(r) /\ pc'[r] # pc[r] /\ faults' = faults)
              => /\ (pc[r] \in {"claim", "claim_create"} /\ HeldByOther(r))
                       => /\ pc'[r] = "idle" /\ requeue'[r] = "none"
                          /\ ghr'[r].status.conds[ConditionTypeClaimed] = "False"
                          /\ ghr'[r].status.conds[ConditionTypeReady] = "False"
                 /\ (pc[r] = "issue" /\ CertFailed(r))
                       => /\ pc'[r] = "idle" /\ requeue'[r] = "none"
                          /\ ghr'[r].status.conds[ConditionTypeCertificateIssued] = "False"
                          /\ ghr'[r].status.conds[ConditionTypeReady] = "False"
                 /\ (pc[r] = "assign" /\ Unplaceable(r)
                     /\ ~(mem[r].gw # 0 /\ gws[mem[r].gw].exists))
                       => /\ pc'[r] = "idle" /\ requeue'[r] = "none"
                          /\ ghr'[r].status.conds[ConditionTypeListenerAttached] = "False"
                          /\ ghr'[r].status.conds[ConditionTypeReady] = "False"
                          /\ ghr'[r].status.reasons[ConditionTypeReady]
                                = "NoGatewayMatchingSelector"]_vars

\* request r has completed n passes since the external change of the given kind,
\* is not being deleted, and no API call has failed
Recovered(r, kind, n) ==
    /\ drift[r].kind = kind
    /\ drift[r].passes >= n
    /\ pc[r] = "idle"
    /\ faults = 0
    /\ Live(r)

\* request r is Ready on a certificate that ACM has issued
ReadyOnIssued(r) ==
    /\ Persisted(r, ConditionTypeReady) = "True"
    /\ ghr[r].status.certArn # 0
    /\ certs[ghr[r].status.certArn].status = "ISSUED"

\* request r is Ready on a gateway that exists
ReadyOnGateway(r) ==
    /\ Persisted(r, ConditionTypeReady) = "True"
    /\ ghr[r].status.gw # 0
    /\ gws[ghr[r].status.gw].exists

RecordsUpserted(records, zoneId, c) ==
    \A v \in ValidationRecords(c) :
        \E x \in records : /\ x.zone = zoneId /\ x.name = v.name
                            /\ x.type = v.type /\ x.value = v.value

AliasExists(records, r, type, g) ==
    \E x \in records : /\ x.zone = ghr[r].spec.zoneId
                        /\ x.name = ghr[r].spec.hostname
                        /\ x.type = type
                        /\ x.value = AliasRecord(ghr[r].spec.hostname, g).value

\* C20: whenever a step sets DnsAliasReady to True, the zone of the request
\* then holds both an A and an AAAA alias record for the request's hostname,
\* each targeting the load balancer of the assigned gateway.
C20_BothAliasRecords ==
    [][\A r \in Reqs :
          (/\ ghr[r].status.conds[ConditionTypeDnsAliasReady] # "True"
           /\ ghr'[r].status.conds[ConditionTypeDnsAliasReady] = "True")
              => /\ AliasExists(dns', r, "A", ghr'[r].status.gw)
                 /\ AliasExists(dns', r, "AAAA", ghr'[r].status.gw)]_vars

\* the claims that carry the name of request r's claim
NamedLike(r) ==
    {c \in claims : c.name = generateClaimName(ghr[r].spec.zoneId, ghr[r].spec.hostname)}

Quiet == \A r \in Reqs : pc[r] = "idle" /\ requeue[r] = "none"

\* C22: whenever every pass has returned and none is due, the
\* LoadBalancerConfiguration of every gateway lists the certificate of every
\* Ready request that is assigned to the gateway and not being deleted.
C22_BundleConverges ==
    Quiet =>
        \A r \in Reqs : \A g \in GatewayOf(r) :
            (Live(r) /\ Persisted(r, ConditionTypeReady) = "True" /\ lbcs[g].exists)
                => ghr[r].status.certArn \in Range(Bundle(lbcs[g]))

\* both requests found no gateway with capacity, computed the same index and
\* wrote gw-NN-config: each is about to create gw-NN
CreateRace ==
    /\ \A r \in Reqs : pc[r] = "assign_create"
    /\ tmp["r1"].sel = tmp["r2"].sel

\* an API call has failed or a request was deleted
Disturbed == faults > 0 \/ \E r \in Reqs : ~Live(r)

\* both requests are Ready on the one gateway of the pool
BothReadyOnOne ==
    /\ Cardinality({g \in GwIdx : gws[g].exists}) = 1
    /\ \A r \in Reqs : /\ Persisted(r, ConditionTypeReady) = "True"
                         /\ GatewayOf(r) # {}

C24_AssignedGatewayKept ==
    [][\A g \in GwIdx :
          gws[g].exists /\ ~gws'[g].exists
              => ~\E o \in Reqs : Live(o) /\ ghr[o].status.gw = g]_vars


\* C25: a teardown pass that leaves the request's certificate in existence at the
\* authority keeps the DomainClaim and returns with a requeue, and no step removes
\* the finalizer of a request whose certificate still exists.
C25_CertificateBlocksTeardown ==
    [][\A r \in Reqs :
          LET c == ghr[r].status.certArn
          IN /\ pc[r] = "t_cert" /\ pc'[r] # pc[r] /\ c # 0 /\ certs'[c].status
                    \notin {"ABSENT", "DELETED"}
                => claims' = claims /\ pc'[r] = "idle" /\ requeue'[r] # "none"
             /\ ghr[r].finalizer /\ ~ghr'[r].finalizer => ~CertExists(c)]_vars


\* the records of a pair: the alias of the hostname and its validation CNAME
RecordsOfPair(records, zoneId, hostname) ==
    {x \in records : x.zone = zoneId /\ x.name \in {hostname, <<"_acm">> \o hostname}}

\* C26: a step of one request leaves in place every DNS record and certificate of
\* a (zoneId, hostname) whose DomainClaim another request owns, and that claim
\* itself; also in the cleanup that follows an edit of its own spec to a
\* hostname the other request owns.
C26_ForeignPairUntouched ==
    [][\A o \in Reqs : \A c \in ClaimsOf(o) :
          pc'[o] = pc[o] /\ ghr'[o] = ghr[o]
              => /\ c \in claims'
                 /\ RecordsOfPair(dns, c.zoneId, c.hostname) \subseteq dns'
                 /\ \A k \in CertIds :
                       CertExists(k) /\ certs[k].host = c.hostname
                           => certs'[k].status # "DELETED"]_vars


\* C27: when the reprovisioning pass of an edited request has run, nothing that
\* request provisioned for the previous (zoneId, hostname) remains: no DomainClaim
\* of the request for that pair, no alias or validation record, no certificate.
C27_PreviousPairReleased ==
    [][\A r \in Reqs :
          pc[r] = "p_cert" /\ pc'[r] = "idle"
              => LET hostname == ghr[r].status.hash[1]
                     zoneId == ghr[r].status.hash[2]
                 IN /\ ~\E c \in claims' : /\ c.ownerRef = OwnerRef(r)
                                           /\ c.zoneId = zoneId
                                           /\ c.hostname = hostname
                    /\ ~\E x \in RecordsOfPair(dns', zoneId, hostname) : x.by = r
                    /\ ~\E k \in CertIds : /\ certs'[k].owner = r
                                           /\ certs'[k].host = hostname
                                           /\ certs'[k].status
                                                  \notin {"ABSENT", "DELETED"}]_vars


\* C28: a certificate that was requested for a request and still exists at the
\* authority is the certificateId in that request's status, as long as the
\* request is not being deleted; so no second certificate is requested, and
\* certificateId is not cleared or replaced, while the earlier one exists.
C28_ExistingCertificateRecorded ==
    \A r \in Reqs : \A c \in CertIds :
        Live(r) /\ CertExists(c) /\ certs[c].owner = r => ghr[r].status.certArn = c


\* C29: a request that is Ready=True with observedSpecHash equal to the hash of
\* its spec has in certificateId a certificate requested for spec.hostname, and
\* the DomainClaims and DNS records it holds are those of (spec.zoneId,
\* spec.hostname); also when the spec was edited before the first MarkReady.
C29_ReadyMatchesSpec ==
    \A r \in Reqs :
        LET spec == ghr[r].spec
            st == ghr[r].status
        IN Live(r) /\ IsStatusConditionTrue(st, ConditionTypeReady)
                /\ st.hash = computeSpecHash(spec)
            => /\ st.certArn # 0 /\ certs[st.certArn].host = spec.hostname
               /\ \A c \in ClaimsOf(r) :
                     c.zoneId = spec.zoneId /\ c.hostname = spec.hostname
               /\ RecordsOf(r) \subseteq RecordsOfPair(dns, spec.zoneId, spec.hostname)


\* C30: the reprovisioning cleanup obeys the guards of finalizer teardown: while
\* the certificate is in use it waits (nothing is released, certificateId stays,
\* the pass asks for a retry after 15 seconds); otherwise, when it returns, a
\* gateway left without assignments has been deleted; the finalizer stays.
C30_CleanupFollowsTeardown ==
    [][\A r \in Reqs :
          pc[r] = "p_cert" /\ pc'[r] = "idle"
              => LET c == mem[r].certArn
                     g == mem[r].gw
                     inUse == c # 0 /\ isCertificateInUse(c, TRUE)
                 IN /\ ghr'[r].finalizer
                    /\ inUse => /\ claims' = claims
                                /\ ghr'[r].status.certArn = c
                                /\ requeue'[r] = "15s"
                    /\ ~inUse /\ g # 0 /\ OtherAssignments(r, g) = {}
                          => ~gws'[g].exists]_vars


C32_StepAfterPersistedCondition ==
    [][\A r \in Reqs :
          /\ (\E c \in CertIds : certs[c].status = "ABSENT" /\ certs'[c].owner = r)
                => Persisted(r, ConditionTypeClaimed) = "True"
          /\ pc[r] = "validate" /\ pc'[r] # pc[r] /\ dns' # dns
                => Persisted(r, ConditionTypeCertificateRequested) = "True"
          /\ pc[r] \in {"assign", "assign_create", "assign_write"} /\ pc'[r] # pc[r]
                /\ (gws' # gws \/ lbcs' # lbcs)
                => Persisted(r, ConditionTypeCertificateIssued) = "True"
          /\ pc[r] = "alias" /\ pc'[r] # pc[r] /\ dns' # dns
                => Persisted(r, ConditionTypeListenerAttached) = "True"]_vars


\* C33: a normal pass that starts while the recorded certificate, with
\* CertificateIssued=True, is not found at ACM or is FAILED or REVOKED persists a
\* status without CertificateIssued, DnsValidated, ListenerAttached,
\* DnsAliasReady, Ready and certificateId and goes on; the pipeline then requests
\* a certificate anew, and the request becomes Ready=True only on a certificate
\* that ACM has issued.
C33_CertificateDriftReprovisions ==
    [][\A r \in Reqs :
          LET st == ghr[r].status
              c == st.certArn
              bad == c # 0 /\ st.conds[ConditionTypeCertificateIssued] = "True"
                     /\ certs[c].status \in {"ABSENT", "DELETED", "FAILED", "REVOKED"}
          IN /\ pc[r] = "idle" /\ pc'[r] # "idle" /\ Live(r) /\ bad
                => /\ ghr'[r].status.certArn = 0
                   /\ \A t \in {ConditionTypeCertificateIssued, ConditionTypeDnsValidated,
                                ConditionTypeListenerAttached, ConditionTypeDnsAliasReady,
                                ConditionTypeReady} : ghr'[r].status.conds[t] = "None"
                   /\ pc'[r] = "claim"
             /\ pc[r] \in {"claim", "claim_create"} /\ mem[r].certArn = 0
                   /\ pc'[r] \notin {"claim", "claim_create", "idle"}
                => pc'[r] = "cert"
             /\ c = 0 /\ ghr'[r].status.certArn # 0
                => /\ certs[ghr'[r].status.certArn].status = "ABSENT"
                   /\ certs'[ghr'[r].status.certArn].status = "NEW"
             /\ st.conds[ConditionTypeReady] # "True"
                   /\ ghr'[r].status.conds[ConditionTypeReady] = "True"
                => /\ ghr'[r].status.certArn # 0
                   /\ ghr'[r].status.conds[ConditionTypeCertificateIssued] = "True"
                   /\ certs'[ghr'[r].status.certArn].status
                          \in {"ISSUED", "REVOKED", "DELETED"}]_vars

\* a request whose certificate was revoked is Ready again on another, issued one
C33_Witness ==
    \E r \in Reqs :
        /\ Live(r)
        /\ pc[r] = "idle"
        /\ ReadyOnIssued(r)
        /\ \E c \in CertIds : /\ c # ghr[r].status.certArn
                              /\ certs[c].owner = r
                              /\ certs[c].status = "REVOKED"


C35_FailedCleanupBlocksTeardown ==
    [][\A r \in Reqs :
          /\ pc[r] = "t_cleanup_del" /\ pc'[r] # pc[r] /\ faults' # faults
                => /\ pc'[r] = "idle"
                   /\ requeue'[r] = "err"
                   /\ ghr'[r] = ghr[r]
                   /\ ghr'[r].finalizer
                   /\ ghr'[r].status.gw = mem[r].gw
          /\ ghr[r].deleting /\ ghr[r].finalizer /\ ~ghr'[r].finalizer
                => pc[r] = "t_final"
          /\ pc'[r] = "t_final" /\ pc[r] # "t_final"
                => /\ faults' = faults \/ pc[r] = "t_cert"
                   /\ pc[r] = "t_cleanup_del" => ~gws'[mem[r].gw].exists]_vars

\* a teardown pass stopped at the failed delete of the gateway: the claim is
\* released, the request keeps its finalizer and its assignment
C35_Witness ==
    \E r \in Reqs :
        /\ ghr[r].exists /\ ghr[r].deleting /\ ghr[r].finalizer
        /\ pc[r] = "idle"
        /\ requeue[r] = "err"
        /\ faults > 0
        /\ ghr[r].status.gw # 0
        /\ gws[ghr[r].status.gw].exists
        /\ ClaimsOf(r) = {}

\* ------------------------------------------------------------ one namespace
\* two requests of the same namespace, for different pairs, submitted to an
\* empty pool
InitShared ==
    /\ ghr = [r \in Reqs |-> IF r = "r1" THEN NewReq(MkSpec(Host1))
                                         ELSE NewReq(MkSpec(Host2))]
    /\ gws = EmptyPool
    /\ claims = {}
    /\ lbcs = ConfigsOf(gws)
    /\ nsLabel = [n \in {"a"} |-> 0]
    /\ certs = [c \in CertIds |-> NoCert]
    /\ dns = {}
    /\ pc = [r \in Reqs |-> "idle"]
    /\ mem = [r \in Reqs |-> EmptyStatus]
    /\ tmp = [r \in Reqs |-> NoTmp]
    /\ requeue = [r \in Reqs |-> "now"]
    /\ faults = 0
    /\ placed = [g \in GwIdx |-> 0]
    /\ drift = [r \in Reqs |-> NoDrift]

SharedSpec == InitShared /\ [][Next]_vars

\* C36: a teardown step of a request removes the gateway-access label of its
\* namespace only if no other request of that namespace is assigned to the
\* labelled gateway; while there is one, the label stays.
C36_LabelKeptForOthers ==
    [][\A r \in Reqs :
          (/\ pc[r] = "t_cert"
           /\ pc'[r] # "t_cert"
           /\ \E o \in Reqs \ {r} :
                  /\ Namespace(o) = Namespace(r)
                  /\ ghr[o].exists /\ ~ghr[o].deleting
                  /\ ghr[o].status.gw # 0
                  /\ ghr[o].status.gw = nsLabel[Namespace(r)])
          => nsLabel'[Namespace(r)] = nsLabel[Namespace(r)]]_vars

\* C37: a DomainClaim is deleted only by a teardown or cleanup step of the
\* request that owns it, a claim is only ever added under a free name and with
\* the creating request as its owner, no step changes a claim in place, and a
\* step of ensureDomainClaim that meets no API failure and finds the claim of
\* its pair owned by another request leaves the claims as they are and records
\* Claimed=False/AlreadyClaimed; a release that finds no claim of its own goes
\* on with the teardown.
C37_ClaimTouchedByOwnerOnly ==
    [][/\ \A c \in claims \ claims' :
              \E r \in Reqs : /\ c.ownerRef = OwnerRef(r)
                              /\ pc[r] \in {"t_cert", "p_cert"}
                              /\ pc'[r] # pc[r]
       /\ \A c \in claims' \ claims :
              /\ \A d \in claims : d.name # c.name
              /\ \E r \in Reqs : /\ c.ownerRef = OwnerRef(r)
                                 /\ pc[r] = "claim_create"
                                 /\ pc'[r] # pc[r]
       /\ \A r \in Reqs :
              (/\ pc[r] \in {"claim", "claim_create"}
               /\ pc'[r] # pc[r]
               /\ faults' = faults
               /\ \E c \in claims :
                      /\ c.name = generateClaimName(ghr[r].spec.zoneId,
                                                    ghr[r].spec.hostname)
                      /\ c.ownerRef.uid # r)
                  => /\ claims' = claims
                     /\ ghr'[r].status.conds[ConditionTypeClaimed] = "False"
                     /\ ghr'[r].status.reasons[ConditionTypeClaimed] = "AlreadyClaimed"
       /\ \A r \in Reqs :
              (/\ pc[r] = "t_cert"
               /\ pc'[r] \notin {"t_cert", "idle"}
               /\ \A c \in claims : c.ownerRef # OwnerRef(r))
                  => claims' = claims /\ pc'[r] \in {"t_cleanup", "t_final"}]_vars

\* a request being deleted has run its release while the claim of its pair,
\* owned by the other request, is still in place
C37_Witness ==
    \E r, o \in Reqs :
        /\ r # o
        /\ ghr[r].deleting
        /\ pc[r] = "t_final"
        /\ Pair(ghr[r].spec) = Pair(ghr[o].spec)
        /\ ghr[r].status.reasons[ConditionTypeClaimed] = "AlreadyClaimed"
        /\ \E c \in claims : /\ <<c.zoneId, c.hostname>> = Pair(ghr[r].spec)
                              /\ c.ownerRef = OwnerRef(o)

\* C38: in every step that creates a pool gateway gw-NN, the
\* LoadBalancerConfiguration gw-NN-config that the gateway references exists
\* before the step.
C38_ConfigurationBeforeGateway ==
    [][\A g \in GwIdx :
          (~gws[g].exists /\ gws'[g].exists) => lbcs[g].exists]_vars

\* ------------------------------------------------------------ selection
\* the states a pool gateway can be in: absent, of another class, or a pool
\* member with either visibility, WAF set or unset, labelled or not, empty,
\* one below its limits or at one of them
GatewayStates ==
    {NoGw, [CreateGateway(DefaultVisibility, "") EXCEPT !.class = "other"]}
    \cup {[CreateGateway(v, w) EXCEPT !.label = l, !.certCount = n[1],
                                      !.ruleCount = n[2]] :
             v \in Visibilities, w \in Wafs, l \in {"", "s"},
             n \in {<<0, 0>>, <<MaxCertificatesPerGateway - 1, MaxRulesPerGateway - 1>>,
                    <<MaxCertificatesPerGateway, 0>>, <<0, MaxRulesPerGateway>>}}

\* one request at Step 6, with any visibility, WAF and selector, before any pool
InitSelect ==
    /\ \E v \in {"", "internal"}, w \in Wafs, l \in {"", "s"} :
          ghr = [r \in Reqs |->
                    IF r = "r1"
                    THEN NewReq([MkSpec(Host1) EXCEPT !.visibility = v, !.wafArn = w,
                                                     !.selector = l])
                    ELSE GoneReq(MkSpec(Host2))]
    /\ gws \in [GwIdx -> GatewayStates]
    /\ claims = {}
    /\ lbcs = ConfigsOf(gws)
    /\ nsLabel = [n \in Namespaces |-> 0]
    /\ certs = [c \in CertIds |-> NoCert]
    /\ dns = {}
    /\ pc = [r \in Reqs |-> IF r = "r1" THEN "select" ELSE "idle"]
    /\ mem = [r \in Reqs |-> EmptyStatus]
    /\ tmp = [r \in Reqs |-> NoTmp]
    /\ requeue = [r \in Reqs |-> "none"]
    /\ faults = 0
    /\ placed = [g \in GwIdx |-> 0]
    /\ drift = [r \in Reqs |-> NoDrift]

\* one call of SelectGateway with the request's parameters: the first call
\* sets the in-memory assignment, a second call over the same pool is kept apart
Select(r) ==
    /\ pc[r] \in {"select", "selected"}
    /\ LET spec == ghr[r].spec
           sel == SelectGateway(gws, EffVisibility(spec), spec.wafArn, spec.selector)
       IN IF pc[r] = "select"
          THEN /\ mem' = [mem EXCEPT ![r].gw = sel]
               /\ pc' = [pc EXCEPT ![r] = "selected"]
               /\ UNCHANGED tmp
          ELSE /\ tmp' = [tmp EXCEPT ![r].sel = sel]
               /\ pc' = [pc EXCEPT ![r] = "again"]
               /\ UNCHANGED mem
    /\ UNCHANGED <<ghr, claims, gws, lbcs, nsLabel, certs, dns, requeue, faults, placed,
                   drift>>

NextSelect == \E r \in Reqs : Select(r)

SpecSelect == InitSelect /\ [][NextSelect]_vars

C40_WaitingForLoadBalancer ==
    [][\A r \in Reqs :
          (/\ pc[r] = "alias"
           /\ pc'[r] # "alias"
           /\ mem[r].gw # 0
           /\ gws[mem[r].gw].exists
           /\ ~gws[mem[r].gw].addr)
              => /\ dns' = dns
                 /\ pc'[r] = "idle"
                 /\ requeue'[r] = "30s"
                 /\ ghr'[r] = ghr[r]
                 /\ ghr'[r].status.gw = mem[r].gw
                 /\ ghr'[r].status.conds[ConditionTypeListenerAttached] = "True"
                 /\ ghr'[r].status.conds[ConditionTypeDnsAliasReady] # "False"
                 /\ ghr'[r].status.conds[ConditionTypeReady] # "False"]_vars

\* a pass has ended at the alias step of a gateway without an address: the
\* request waits 30 s, assigned, with no alias record and nothing marked failed
C40_Witness ==
    \E r \in Reqs :
        /\ Live(r)
        /\ pc[r] = "idle"
        /\ requeue[r] = "30s"
        /\ ghr[r].status.gw # 0
        /\ gws[ghr[r].status.gw].exists
        /\ ~gws[ghr[r].status.gw].addr
        /\ Persisted(r, ConditionTypeListenerAttached) = "True"
        /\ Persisted(r, ConditionTypeDnsAliasReady) # "True"
        /\ \A x \in dns : x.type # "A"

====
